---- MODULE Spec2Model ----
(***************************************************************************)
(* Model of identity-service/app/email_service.py: the SMTP provider       *)
(* resolver _smtp_config and the dispatcher send_password_reset_email.     *)
(*                                                                         *)
(* Python values are represented as follows.                               *)
(*   - a dict is a function whose DOMAIN is its set of keys; {} is the     *)
(*     function with the empty domain, and "not d" is DOMAIN d = {};       *)
(*   - a settings string is a TLA+ string, "" being the falsy value;       *)
(*   - the recipient address, the only caller-supplied text that ends in   *)
(*     a header, is a sequence of tokens, a token being either a run of    *)
(*     characters without line break or the line break "\n", so that the   *)
(*     header check of email.policy (len(value.splitlines()) > 1) is       *)
(*     computed and not assumed;                                           *)
(*   - the outcome of aiosmtplib.send is an input of the model: it either  *)
(*     completes or raises an exception whose str() is drawn from          *)
(*     FailureReasons.                                                     *)
(***************************************************************************)
EXTENDS Integers, Sequences, FiniteSets, TLC

VARIABLES
    settings,        \* the settings object of line 11
    pc,              \* position of the call: idle, resolving, sending,
                     \* returned (a result was returned), raised (an
                     \* exception left the function)
    calls,           \* calls made so far
    to_email, new_password, recipient_name,    \* arguments of the call
    config,          \* local config, line 59
    message,         \* local message, lines 98-103
    invocations,     \* calls of aiosmtplib.send made by this call
    send_args,       \* keyword arguments of that call, lines 108-113
    transport,       \* how aiosmtplib.send ended
    result           \* the returned dict

vars == <<settings, pc, calls, to_email, new_password, recipient_name,
          config, message, invocations, send_args, transport, result>>

\* Number of calls of send_password_reset_email made in one behaviour.
MaxCalls == 2

\* The empty dict {} , also used for "no value yet" (None).
EmptyDict == [k \in {} |-> ""]

Providers == {"gmail", "sendgrid", "resend", "smtp", "mailgun"}

\* The settings bags: every field is either empty or set, independently.
SettingsBags ==
    [email_provider     : Providers,
     gmail_user         : {"", "owner@gmail.com"},
     gmail_app_password : {"", "gmail-app-pw"},
     sendgrid_user      : {"", "sg-user"},
     sendgrid_api_key   : {"", "SG.key"},
     resend_api_key     : {"", "re_key"},
     smtp_host          : {"", "mail.example.org"},
     smtp_port          : {0, 465},
     smtp_user          : {"", "smtp-user"},
     smtp_password      : {"", "smtp-pw"},
     smtp_secure        : BOOLEAN,
     email_from         : {"", "events@example.org"},
     email_from_name    : {"Sports Events"},
     app_name           : {"Sports Event Management"}]

\* Recipient addresses: plain, with a trailing line break, with an injected
\* second header line.
Recipients ==
    {<<"user@example.com">>,
     <<"user@example.com", "\n">>,
     <<"user@example.com", "\n", "Bcc: x@example.com">>}

RecipientNames == {"", "Asha"}

Secrets == {"Tmp#4821"}

\* str(exc) of the exceptions the transport raises; str(Exception()) is "".
FailureReasons == {"", "Connection refused"}

----------------------------------------------------------------------------
\* _smtp_config, lines 14-53.

_smtp_config_sendgrid_user_unset(s) ==
    IF s.email_provider = "gmail" THEN
        IF s.gmail_user = "" \/ s.gmail_app_password = "" THEN EmptyDict
        ELSE [host |-> "smtp.gmail.com", port |-> 587,
              user |-> s.gmail_user, password |-> s.gmail_app_password]
    ELSE IF s.email_provider = "sendgrid" THEN
        IF s.sendgrid_api_key = "" THEN EmptyDict
        ELSE [host |-> "smtp.sendgrid.net", port |-> 587,
              user |-> s.sendgrid_user,
              password |-> s.sendgrid_api_key]
    ELSE IF s.email_provider = "resend" THEN
        IF s.resend_api_key = "" THEN EmptyDict
        ELSE [host |-> "smtp.resend.com", port |-> 587,
              user |-> "resend", password |-> s.resend_api_key]
    ELSE IF s.email_provider = "smtp" THEN
        IF s.smtp_host = "" \/ s.smtp_user = "" \/ s.smtp_password = ""
        THEN EmptyDict
        ELSE [host |-> s.smtp_host, port |-> s.smtp_port,
              user |-> s.smtp_user, password |-> s.smtp_password,
              secure |-> s.smtp_secure]
    ELSE EmptyDict

_smtp_config_resend_port(s) ==
    IF s.email_provider = "gmail" THEN
        IF s.gmail_user = "" \/ s.gmail_app_password = "" THEN EmptyDict
        ELSE [host |-> "smtp.gmail.com", port |-> 587,
              user |-> s.gmail_user, password |-> s.gmail_app_password]
    ELSE IF s.email_provider = "sendgrid" THEN
        IF s.sendgrid_api_key = "" THEN EmptyDict
        ELSE [host |-> "smtp.sendgrid.net", port |-> 587,
              user |-> IF s.sendgrid_user # "" THEN s.sendgrid_user
                       ELSE "apikey",
              password |-> s.sendgrid_api_key]
    ELSE IF s.email_provider = "resend" THEN
        IF s.resend_api_key = "" THEN EmptyDict
        ELSE [host |-> "smtp.resend.com", port |-> 465,
              user |-> "resend", password |-> s.resend_api_key]
    ELSE IF s.email_provider = "smtp" THEN
        IF s.smtp_host = "" \/ s.smtp_user = "" \/ s.smtp_password = ""
        THEN EmptyDict
        ELSE [host |-> s.smtp_host, port |-> s.smtp_port,
              user |-> s.smtp_user, password |-> s.smtp_password,
              secure |-> s.smtp_secure]
    ELSE EmptyDict

_smtp_config_smtp_password_unchecked(s) ==
    IF s.email_provider = "gmail" THEN
        IF s.gmail_user = "" \/ s.gmail_app_password = "" THEN EmptyDict
        ELSE [host |-> "smtp.gmail.com", port |-> 587,
              user |-> s.gmail_user, password |-> s.gmail_app_password]
    ELSE IF s.email_provider = "sendgrid" THEN
        IF s.sendgrid_api_key = "" THEN EmptyDict
        ELSE [host |-> "smtp.sendgrid.net", port |-> 587,
              user |-> IF s.sendgrid_user # "" THEN s.sendgrid_user
                       ELSE "apikey",
              password |-> s.sendgrid_api_key]
    ELSE IF s.email_provider = "resend" THEN
        IF s.resend_api_key = "" THEN EmptyDict
        ELSE [host |-> "smtp.resend.com", port |-> 587,
              user |-> "resend", password |-> s.resend_api_key]
    ELSE IF s.email_provider = "smtp" THEN
        IF s.smtp_host = "" \/ s.smtp_user = ""
        THEN EmptyDict
        ELSE [host |-> s.smtp_host, port |-> s.smtp_port,
              user |-> s.smtp_user, password |-> s.smtp_password,
              secure |-> s.smtp_secure]
    ELSE EmptyDict

_smtp_config(s) ==
    IF s.email_provider = "gmail" THEN
        IF s.gmail_user = "" \/ s.gmail_app_password = "" THEN EmptyDict
        ELSE [host |-> "smtp.gmail.com", port |-> 587,
              user |-> s.gmail_user, password |-> s.gmail_app_password]
    ELSE IF s.email_provider = "sendgrid" THEN
        IF s.sendgrid_api_key = "" THEN EmptyDict
        ELSE [host |-> "smtp.sendgrid.net", port |-> 587,
              user |-> IF s.sendgrid_user # "" THEN s.sendgrid_user
                       ELSE "apikey",
              password |-> s.sendgrid_api_key]
    ELSE IF s.email_provider = "resend" THEN
        IF s.resend_api_key = "" THEN EmptyDict
        ELSE [host |-> "smtp.resend.com", port |-> 587,
              user |-> "resend", password |-> s.resend_api_key]
    ELSE IF s.email_provider = "smtp" THEN
        IF s.smtp_host = "" \/ s.smtp_user = "" \/ s.smtp_password = ""
        THEN EmptyDict
        ELSE [host |-> s.smtp_host, port |-> s.smtp_port,
              user |-> s.smtp_user, password |-> s.smtp_password,
              secure |-> s.smtp_secure]
    ELSE EmptyDict

----------------------------------------------------------------------------
\* send_password_reset_email, lines 56-118.

\* "not config", line 60.
NotConfigured(c) == DOMAIN c = {}

\* The result of the unconfigured path, line 62.
NotConfiguredResultReworded ==
    [success |-> FALSE, error |-> "Email service not configured."]

NotConfiguredResult ==
    [success |-> FALSE,
     error |-> "Email service not configured. Please contact administrator."]

\* from_email, line 64.
from_email(s) ==
    IF s.email_from # "" THEN s.email_from
    ELSE IF s.gmail_user # "" THEN s.gmail_user
    ELSE "noreply@sportsevent.com"

\* "recipient_name or 'User'", lines 75 and 87.
Greeting(name) == IF name # "" THEN name ELSE "User"

\* len(value.splitlines()) of a token sequence: each line break ends a line,
\* and text after the last line break is one more line.
RECURSIVE SplitLinesFrom(_, _, _)
SplitLinesFrom(v, i, open) ==
    IF i > Len(v) THEN (IF open THEN 1 ELSE 0)
    ELSE IF v[i] = "\n" THEN 1 + SplitLinesFrom(v, i + 1, FALSE)
    ELSE SplitLinesFrom(v, i + 1, TRUE)

SplitLinesCount(v) == SplitLinesFrom(v, 1, FALSE)

\* Assigning a header of an EmailMessage (lines 99-101) raises ValueError
\* when the value spans more than one line.
HeaderRaises(v) == SplitLinesCount(v) > 1

\* The message of lines 68-103.
BuildMessage(s, to, secret, name) ==
    [Subject |-> "Password Reset - Sports Event Management",
     From    |-> [name |-> s.email_from_name, addr |-> from_email(s)],
     To      |-> to,
     text    |-> [app |-> s.app_name, greeting |-> Greeting(name),
                  secret |-> secret],
     html    |-> [app |-> s.app_name, greeting |-> Greeting(name),
                  secret |-> secret]]

\* config.get("secure", False), lines 112-113.
GetSecure(c) == IF "secure" \in DOMAIN c THEN c.secure ELSE FALSE

\* The keyword arguments of aiosmtplib.send, lines 108-113.
SendArgsBothTls(c) ==
    [hostname |-> c.host, port |-> c.port,
     username |-> c.user, password |-> c.password,
     start_tls |-> ~GetSecure(c), use_tls |-> TRUE]

SendArgs(c) ==
    [hostname |-> c.host, port |-> c.port,
     username |-> c.user, password |-> c.password,
     start_tls |-> ~GetSecure(c), use_tls |-> GetSecure(c)]

\* Line 115.
SuccessResult == [success |-> TRUE]

\* Line 118.
FailureResultAsSuccess(reason) == [success |-> TRUE]

FailureResult(reason) == [success |-> FALSE, error |-> reason]

----------------------------------------------------------------------------
\* settings = get_settings() is read once, at import (line 11).
Init ==
    /\ settings \in SettingsBags
    /\ pc = "idle"
    /\ calls = 0
    /\ to_email = <<>>
    /\ new_password = ""
    /\ recipient_name = ""
    /\ config = EmptyDict
    /\ message = EmptyDict
    /\ invocations = 0
    /\ send_args = EmptyDict
    /\ transport = EmptyDict
    /\ result = EmptyDict

\* A caller enters send_password_reset_email (lines 56-58).
Call ==
    /\ pc = "idle"
    /\ calls < MaxCalls
    /\ calls' = calls + 1
    /\ \E to \in Recipients, name \in RecipientNames, secret \in Secrets :
          /\ to_email' = to
          /\ recipient_name' = name
          /\ new_password' = secret
    /\ pc' = "resolving"
    /\ config' = EmptyDict
    /\ message' = EmptyDict
    /\ invocations' = 0
    /\ send_args' = EmptyDict
    /\ transport' = EmptyDict
    /\ result' = EmptyDict
    /\ UNCHANGED settings

\* Lines 59-62: the resolver reports "not configured".
ShortCircuit ==
    /\ pc = "resolving"
    /\ NotConfigured(_smtp_config(settings))
    /\ config' = _smtp_config(settings)
    /\ result' = NotConfiguredResult
    /\ pc' = "returned"
    /\ UNCHANGED <<settings, calls, to_email, new_password, recipient_name,
                   message, invocations, send_args, transport>>

\* Lines 59-101: configured, and a header assignment raises; the exception
\* is outside the try block of line 105 and leaves the function.
BuildRaises ==
    /\ pc = "resolving"
    /\ ~NotConfigured(_smtp_config(settings))
    /\ HeaderRaises(to_email)
    /\ config' = _smtp_config(settings)
    /\ pc' = "raised"
    /\ UNCHANGED <<settings, calls, to_email, new_password, recipient_name,
                   message, invocations, send_args, transport,
                   result>>

\* Lines 59-114: configured, the message is built and aiosmtplib.send is
\* awaited.
Send ==
    /\ pc = "resolving"
    /\ ~NotConfigured(_smtp_config(settings))
    /\ ~HeaderRaises(to_email)
    /\ config' = _smtp_config(settings)
    /\ message' = BuildMessage(settings, to_email, new_password,
                               recipient_name)
    /\ send_args' = SendArgs(_smtp_config(settings))
    /\ invocations' = invocations + 1
    /\ pc' = "sending"
    /\ UNCHANGED <<settings, calls, to_email, new_password, recipient_name,
                   transport, result>>

\* Line 115: the transport completed.
TransportOk ==
    /\ pc = "sending"
    /\ transport' = [outcome |-> "completed"]
    /\ result' = SuccessResult
    /\ pc' = "returned"
    /\ UNCHANGED <<settings, calls, to_email, new_password, recipient_name,
                   config, message, invocations, send_args>>

\* Lines 116-118: the transport raised an Exception.
TransportFail ==
    /\ pc = "sending"
    /\ \E reason \in FailureReasons :
          /\ transport' = [outcome |-> "raised", reason |-> reason]
          /\ result' = FailureResult(reason)
    /\ pc' = "returned"
    /\ UNCHANGED <<settings, calls, to_email, new_password, recipient_name,
                   config, message, invocations, send_args>>

\* The caller has the result, or the exception, and may call again.
Done ==
    /\ pc \in {"returned", "raised"}
    /\ pc' = "idle"
    /\ UNCHANGED <<settings, calls, to_email, new_password, recipient_name,
                   config, message, invocations, send_args, transport,
                   result>>

Next ==
    \/ Call
    \/ ShortCircuit
    \/ BuildRaises
    \/ Send
    \/ TransportOk
    \/ TransportFail
    \/ Done

Spec == Init /\ [][Next]_vars

----------------------------------------------------------------------------
\* Properties.

\* The current (or last) call has resolved its configuration.
Resolved ==
    \/ pc \in {"sending", "returned", "raised"}
    \/ pc = "idle" /\ calls > 0

\* C1: when the resolver reports "not configured", the call returns exactly
\* the fixed failure result, and on that path no message is built and the
\* transport is never invoked.
C1_UnconfiguredShortCircuits ==
    NotConfigured(_smtp_config(settings)) =>
        /\ message = EmptyDict
        /\ invocations = 0
        /\ send_args = EmptyDict
        /\ transport = EmptyDict
        /\ pc \notin {"sending", "raised"}
        /\ Resolved =>
              result = [success |-> FALSE,
                        error |-> "Email service not configured. Please contact administrator."]

C1_Witness ==
    /\ pc = "returned"
    /\ settings.email_provider = "gmail"
    /\ settings.gmail_app_password = ""
    /\ NotConfigured(config)
    /\ DOMAIN result = {"success", "error"}

\* C2: every call ends by returning a structured result; no exception ever
\* leaves send_password_reset_email.
C2_NoExceptionPropagates == pc # "raised"

\* C3: every returned result is either success = true without an error
\* field, or success = false with a non-empty error string.
C3_ResultShape ==
    pc = "returned" =>
        \/ DOMAIN result = {"success"} /\ result.success
        \/ /\ DOMAIN result = {"success", "error"}
           /\ ~result.success
           /\ result.error # ""

\* C4: the returned result has success = true if and only if the transport
\* was invoked in the call and completed; a completed transport call gives
\* exactly {success: true}, a failed one gives success = false with error
\* equal to the string of the failure.
C4_SuccessIffTransportCompleted ==
    pc = "returned" =>
        /\ result.success <=>
              (invocations = 1 /\ transport = [outcome |-> "completed"])
        /\ transport = [outcome |-> "completed"] =>
              result = [success |-> TRUE]
        /\ (transport # EmptyDict /\ transport.outcome = "raised") =>
              result = [success |-> FALSE, error |-> transport.reason]

C4_Witness ==
    /\ pc = "returned"
    /\ transport # EmptyDict
    /\ transport.outcome = "raised"
    /\ transport.reason = "Connection refused"
    /\ ~result.success

\* C5 as stated: the resolver returns either the empty value or a config in
\* which all five fields host, port, user, password and secure are present
\* and non-empty.
C5_AllFiveFieldsPopulated ==
    \/ NotConfigured(config)
    \/ /\ DOMAIN config = {"host", "port", "user", "password", "secure"}
       /\ config.host # ""
       /\ config.port # 0
       /\ config.user # ""
       /\ config.password # ""
       /\ config.secure \in BOOLEAN

\* C5 as amended: the resolver returns either the empty value or a config in
\* which host, user and password are present and non-empty and port is
\* present; secure is present only for the generic smtp provider, where it
\* is the configured smtp_secure flag and port is the configured smtp_port,
\* unchecked.
C5_CredentialsPopulated ==
    \/ NotConfigured(config)
    \/ /\ {"host", "port", "user", "password"} \subseteq DOMAIN config
       /\ DOMAIN config \subseteq {"host", "port", "user", "password", "secure"}
       /\ config.host # ""
       /\ config.user # ""
       /\ config.password # ""
       /\ config.port \in Int
       /\ ("secure" \in DOMAIN config) <=> (settings.email_provider = "smtp")
       /\ ("secure" \in DOMAIN config) =>
              /\ config.secure = settings.smtp_secure
              /\ config.port = settings.smtp_port

C5_Witness ==
    /\ Resolved
    /\ settings.email_provider = "sendgrid"
    /\ settings.sendgrid_user = ""
    /\ DOMAIN config = {"host", "port", "user", "password"}

\* C6: with all required fields of the selected provider populated, the
\* resolver returns the config of the table.
C6_ProviderTable ==
    Resolved =>
        /\ ( /\ settings.email_provider = "gmail"
             /\ settings.gmail_user # ""
             /\ settings.gmail_app_password # "" ) =>
              /\ ~NotConfigured(config)
              /\ config.host = "smtp.gmail.com"
              /\ config.port = 587
              /\ config.user = settings.gmail_user
              /\ config.password = settings.gmail_app_password
        /\ ( /\ settings.email_provider = "sendgrid"
             /\ settings.sendgrid_api_key # "" ) =>
              /\ ~NotConfigured(config)
              /\ config.host = "smtp.sendgrid.net"
              /\ config.port = 587
              /\ settings.sendgrid_user # "" =>
                    config.user = settings.sendgrid_user
              /\ settings.sendgrid_user = "" => config.user = "apikey"
              /\ config.password = settings.sendgrid_api_key
        /\ ( /\ settings.email_provider = "resend"
             /\ settings.resend_api_key # "" ) =>
              /\ ~NotConfigured(config)
              /\ config.host = "smtp.resend.com"
              /\ config.port = 587
              /\ config.user = "resend"
              /\ config.password = settings.resend_api_key
        /\ ( /\ settings.email_provider = "smtp"
             /\ settings.smtp_host # ""
             /\ settings.smtp_user # ""
             /\ settings.smtp_password # "" ) =>
              /\ ~NotConfigured(config)
              /\ config.host = settings.smtp_host
              /\ config.port = settings.smtp_port
              /\ config.user = settings.smtp_user
              /\ config.password = settings.smtp_password
              /\ config.secure = settings.smtp_secure

C6_Witness ==
    /\ Resolved
    /\ settings.email_provider = "resend"
    /\ settings.resend_api_key # ""
    /\ ~NotConfigured(config)
    /\ config.host = "smtp.resend.com"

\* A required field of the selected provider is absent or empty.
RequiredFieldMissing(s) ==
    \/ /\ s.email_provider = "gmail"
       /\ s.gmail_user = "" \/ s.gmail_app_password = ""
    \/ /\ s.email_provider = "sendgrid"
       /\ s.sendgrid_api_key = ""
    \/ /\ s.email_provider = "resend"
       /\ s.resend_api_key = ""
    \/ /\ s.email_provider = "smtp"
       /\ s.smtp_host = "" \/ s.smtp_user = "" \/ s.smtp_password = ""

\* C7: if a required field of the selected provider is absent or empty the
\* resolver returns "not configured", however completely the other
\* providers are configured.
C7_MissingFieldNotConfigured ==
    (Resolved /\ RequiredFieldMissing(settings)) => NotConfigured(config)

C7_Witness ==
    /\ Resolved
    /\ settings.email_provider = "smtp"
    /\ settings.smtp_password = ""
    /\ settings.smtp_host # ""
    /\ settings.smtp_user # ""
    /\ settings.gmail_user # ""
    /\ settings.gmail_app_password # ""
    /\ settings.sendgrid_api_key # ""
    /\ settings.resend_api_key # ""
    /\ NotConfigured(config)

\* C8: on every transport invocation exactly one of start_tls and use_tls is
\* set, use_tls when the resolved config has secure = true and start_tls
\* when secure is false or absent; gmail, sendgrid and resend use STARTTLS
\* and generic smtp follows smtp_secure.
C8_TlsModeExclusive ==
    invocations = 1 =>
        /\ send_args.start_tls \in BOOLEAN
        /\ send_args.use_tls \in BOOLEAN
        /\ send_args.start_tls # send_args.use_tls
        /\ ("secure" \in DOMAIN config /\ config.secure) =>
              send_args.use_tls
        /\ ("secure" \notin DOMAIN config \/ ~config.secure) =>
              send_args.start_tls
        /\ settings.email_provider \in {"gmail", "sendgrid", "resend"} =>
              send_args.start_tls
        /\ settings.email_provider = "smtp" =>
              send_args.use_tls = settings.smtp_secure

C8_Witness ==
    /\ invocations = 1
    /\ settings.email_provider = "smtp"
    /\ settings.smtp_secure
    /\ send_args.use_tls
    /\ ~send_args.start_tls

\* C9: within one call the transport is invoked exactly once on the sending
\* path and never again, and the call moves resolving ->
\* {short-circuit failure | sending} -> {success | transport failure} to a
\* single returned outcome.
C9_Step ==
    /\ pc = "resolving" =>
          \/ pc' = "returned" /\ invocations' = 0
                /\ result' = NotConfiguredResult
          \/ pc' = "sending" /\ invocations' = 1 /\ result' = EmptyDict
    /\ pc = "sending" =>
          /\ pc' = "returned"
          /\ invocations' = invocations
          /\ \/ result' = SuccessResult
             \/ DOMAIN result' = {"success", "error"} /\ ~result'.success
    /\ pc \in {"returned", "raised"} =>
          /\ pc' = "idle"
          /\ result' = result
          /\ invocations' = invocations

\* C9: every step of a call is a move of that state machine.
C9_OneOutcomePerCall == [][C9_Step]_vars

\* The fallback identities of a provider.
ProviderIdentities(s) ==
    IF s.email_provider = "gmail" THEN {s.gmail_user}
    ELSE IF s.email_provider = "sendgrid" THEN {s.sendgrid_user}
    ELSE IF s.email_provider = "smtp" THEN {s.smtp_user}
    ELSE {}

\* C10: the From address of the built message is email_from when non-empty,
\* else a fallback identity of the selected provider, else the default
\* placeholder; an identity of another provider is never used.
C10_FromAddress ==
    message # EmptyDict =>
        /\ settings.email_from # "" =>
              message.From.addr = settings.email_from
        /\ settings.email_from = "" =>
              message.From.addr \in
                  (ProviderIdentities(settings) \ {""})
                      \cup {"noreply@sportsevent.com"}

====
